---- MODULE Spec2Model ----
(***************************************************************************)
(* lean-api: the route handler pipeline (handleRoute), the guard engine    *)
(* (initGuards), the schema validator adapter (validateWithSchema), the    *)
(* error taxonomy and the response builders.                               *)
(*                                                                         *)
(* JSON / JavaScript values are encoded as records so that any two values  *)
(* can be compared: a string s used as a JSON value is Str(s), undefined   *)
(* is Undefined, null is Null, an object is a record of its fields.        *)
(***************************************************************************)
EXTENDS Integers, Sequences, FiniteSets, TLC

\* ------------------------------------------------------------------ bounds
\* request slots of the route handler (one call of the handler per slot)
MaxReqs == 2
\* calls of handleResourcePermission one run of user logic makes at most
MaxCalls == 1
\* arguments of the pagination helpers: total 0..MaxTotal, page 1..MaxPage,
\* limit up to MaxLimit
MaxTotal == 6
MaxPage == 3
MaxLimit == 4
\* length of the file names given to the download builder
MaxNameLen == 3

Reqs == 1..MaxReqs

\* ------------------------------------------------------- JavaScript values
Undefined == [undefined |-> TRUE]
Null == [null |-> TRUE]
Str(s) == [string |-> s]
Num(n) == [number |-> n]
NaN == [nan |-> TRUE]

\* a ?? b
Nullish(a, b) == IF a = Undefined \/ a = Null THEN b ELSE a

\* ------------------------------------------------------------ errors.ts
\* a default parameter value: msg = "Bad request" in the constructor
DefaultArg(arg, dflt) == IF arg = Undefined THEN dflt ELSE arg.string

HttpError(status, msg) ==
  [class |-> "HttpError", status |-> status, message |-> msg]
BadRequest(msg) ==
  [HttpError(400, DefaultArg(msg, "Bad request")) EXCEPT !.class = "BadRequest"]
Unauthorized(msg) ==
  [HttpError(401, DefaultArg(msg, "Unauthorized")) EXCEPT !.class = "Unauthorized"]
Forbidden(msg) ==
  [HttpError(403, DefaultArg(msg, "Forbidden")) EXCEPT !.class = "Forbidden"]
NotFound(msg) ==
  [HttpError(404, DefaultArg(msg, "Not found")) EXCEPT !.class = "NotFound"]

\* e instanceof HttpError: the class or one of its four subclasses
InstanceOfHttpError(e) ==
  e.class \in {"HttpError", "BadRequest", "Unauthorized", "Forbidden", "NotFound"}

\* the validation engine's own exception, carrying its issues
ZodError(issues) == [class |-> "ZodError", issues |-> issues]
InstanceOfZodError(e) == e.class = "ZodError"

\* anything else that can be thrown: an Error with some internal detail
PlainError(detail) == [class |-> "Error", detail |-> detail]
\* a TypeError raised by the runtime (property access on undefined / null)
TypeError(detail) == [class |-> "TypeError", detail |-> detail]

\* Response.json(body, {status})
ResponseJson(body, status) == [status |-> status, body |-> body]

httpOk(data) == ResponseJson(data, 200)
httpCreated(data) == ResponseJson(data, 201)
httpError(status, message) ==
  ResponseJson([error |-> [message |-> message]], status)

\* a boolean as a JSON value
Bool(b) == [boolean |-> b]

\* { ...a, ...b } of two objects: the fields of both, b's value where both
\* have the field.  An object is a function from its field names.
Spread(a, b) ==
  [k \in DOMAIN a \cup DOMAIN b |-> IF k \in DOMAIN b THEN b[k] ELSE a[k]]
\* {}
NoFields == [k \in {} |-> Undefined]

\* httpDeleted(data?): Response.json({ deleted: true, ...(data ?? {}) }, 200)
httpDeletedKeepsFlag(data) ==
  ResponseJson(Spread(Nullish(data, NoFields), [deleted |-> Bool(TRUE)]), 200)
httpDeleted(data) ==
  ResponseJson(Spread([deleted |-> Bool(TRUE)], Nullish(data, NoFields)), 200)

\* Math.max(a, b), and Math.ceil(a / b) for a >= 0 and b >= 1
MathMax(a, b) == IF a >= b THEN a ELSE b
CeilOfQuotient(a, b) == (a + b - 1) \div b

\* buildPageInfo(total, page, limit)
buildPageInfoFloors(total, page, limit) ==
  LET safeLimit == MathMax(1, limit)
      pageCount == MathMax(1, total \div safeLimit) IN
  [page |-> page, pageCount |-> pageCount, limit |-> safeLimit,
   total |-> total, hasNext |-> page < pageCount, hasPrev |-> page > 1]
buildPageInfo(total, page, limit) ==
  LET safeLimit == MathMax(1, limit)
      pageCount == MathMax(1, CeilOfQuotient(total, safeLimit)) IN
  [page |-> page, pageCount |-> pageCount, limit |-> safeLimit,
   total |-> total, hasNext |-> page < pageCount, hasPrev |-> page > 1]

\* -- download: a string is the sequence of its characters --
\* c.charCodeAt(0) for the characters used
CharCodes ==
  <<<<" ", 32>>, <<"\"", 34>>, <<"%", 37>>, <<"'", 39>>, <<"(", 40>>,
    <<")", 41>>, <<"*", 42>>, <<".", 46>>, <<"/", 47>>, <<"\\", 92>>,
    <<"_", 95>>, <<"a", 97>>, <<"b", 98>>, <<"d", 100>>, <<"f", 102>>,
    <<"p", 112>>>>
CharCode(c) == CharCodes[CHOOSE i \in 1..Len(CharCodes) : CharCodes[i][1] = c][2]
\* n.toString(16).toUpperCase(), for a code of two hexadecimal digits
HexDigits ==
  <<"0", "1", "2", "3", "4", "5", "6", "7", "8", "9", "A", "B", "C", "D", "E", "F">>
ToHex(n) == <<HexDigits[(n \div 16) + 1], HexDigits[(n % 16) + 1]>>
\* str.replace(/[...]/g, f): every character of the class replaced by f(c);
\* f is given as the function from the characters of the class
RECURSIVE ReplaceAll(_, _)
ReplaceAll(str, f) ==
  IF str = <<>> THEN <<>>
  ELSE (IF str[1] \in DOMAIN f THEN f[str[1]] ELSE <<str[1]>>)
         \o ReplaceAll(Tail(str), f)
\* encodeURIComponent leaves A-Z a-z 0-9 - _ . ! ~ * ' ( ) as they are and
\* writes any other (ASCII) character as % and its code in hexadecimal
Unreserved == {"a", "b", "d", "f", "p", "_", ".", "*", "'", "(", ")"}
PercentEscape(c) == <<"%">> \o ToHex(CharCode(c))
encodeURIComponent(str) ==
  ReplaceAll(str, [c \in {CharCodes[i][1] : i \in 1..Len(CharCodes)} \ Unreserved
                     |-> PercentEscape(c)])

\* buildContentDisposition(filename, inline)
buildContentDispositionPlainEncoded(filename, inline) ==
  LET type == IF inline THEN "inline" ELSE "attachment"
      fallback == ReplaceAll(filename, [c \in {"/", "\\", "\""} |-> <<"_">>])
      encoded == encodeURIComponent(filename) IN
  <<type, "; filename=\"">> \o fallback \o <<"\"; filename*=UTF-8''">> \o encoded
buildContentDisposition(filename, inline) ==
  LET type == IF inline THEN "inline" ELSE "attachment"
      fallback == ReplaceAll(filename, [c \in {"/", "\\", "\""} |-> <<"_">>])
      encoded ==
        ReplaceAll(ReplaceAll(encodeURIComponent(filename),
                              [c \in {"'", "(", ")"} |-> PercentEscape(c)]),
                   [c \in {"*"} |-> <<"%", "2", "A">>]) IN
  <<type, "; filename=\"">> \o fallback \o <<"\"; filename*=UTF-8''">> \o encoded

\* httpOkDownload(body, {filename, contentType, inline}): the headers it sets
httpOkDownload(body, init) ==
  LET contentType ==
        IF init.contentType = Undefined THEN Str("application/octet-stream")
        ELSE init.contentType
      inline == IF init.inline = Undefined THEN FALSE ELSE init.inline.boolean IN
  [status |-> 200, body |-> body,
   headers |-> [ContentType |-> contentType,
                ContentDisposition |->
                  buildContentDisposition(init.filename, inline)]]

\* --------------------------------------------------- strings and numbers
\* A string whose characters matter (a path or query parameter) is the
\* sequence of its characters.  Number(s) of z.coerce.number(): the decimal
\* value of a non-empty digit string, NaN for anything else.
Digits == <<"0", "1", "2", "3", "4", "5", "6", "7", "8", "9">>
IsDigit(c) == \E i \in 1..Len(Digits) : Digits[i] = c
DigitVal(c) == (CHOOSE i \in 1..Len(Digits) : Digits[i] = c) - 1

RECURSIVE DecimalValue(_)
DecimalValue(cs) ==
  IF cs = <<>> THEN 0
  ELSE 10 * DecimalValue(SubSeq(cs, 1, Len(cs) - 1)) + DigitVal(cs[Len(cs)])

ToNumber(cs) ==
  IF cs # <<>> /\ \A i \in 1..Len(cs) : IsDigit(cs[i])
  THEN Num(DecimalValue(cs))
  ELSE NaN

\* a string value made of characters
Chars(cs) == [chars |-> cs]
IsChars(v) == DOMAIN v = {"chars"}

\* ----------------------------------------------------- schemas (zod)
\* schema.safeParse(value): {success: true, data} | {success: false, error}
ParseOk(data) == [success |-> TRUE, data |-> data]
ParseFail(issues) == [success |-> FALSE, issues |-> issues]
Issue(path, message) == [path |-> path, message |-> message]

IsObject(v) == "object" \in DOMAIN v
\* {id: ...}
IdObject(id) == [object |-> "params", id |-> id]

\* NumericalIdSchema = z.object({ id: z.coerce.number().int({message: "Invalid id"}) })
NumericalIdSchemaParse(value) ==
  IF ~IsObject(value) THEN ParseFail(<<Issue("", "Required")>>)
  ELSE LET n == IF IsChars(value.id) THEN ToNumber(value.id.chars) ELSE NaN IN
       IF n = NaN
       THEN ParseFail(<<Issue("id", "Expected number, received nan")>>)
       ELSE ParseOk(IdObject(n))

\* the search parameters of req.url: a list of (key, value) entries
QueryKeys == {"page", "limit", "updated_after", "updated_before", "status"}
\* Object.fromEntries(entries): the last entry of a key wins
RECURSIVE FromEntries(_)
FromEntries(entries) ==
  IF entries = <<>>
  THEN [object |-> "query", page |-> Undefined, limit |-> Undefined,
        updated_after |-> Undefined, updated_before |-> Undefined,
        status |-> Undefined]
  ELSE LET e == entries[Len(entries)]
           rest == FromEntries(SubSeq(entries, 1, Len(entries) - 1)) IN
       IF e[1] \in QueryKeys
       THEN [rest EXCEPT ![e[1]] = e[2]]
       ELSE rest

\* z.string().datetime(): ISO-8601 timestamps, here the instants of a small
\* calendar; DateOf is new Date(s).getTime()
IsoTimestamps == {"2024-01-01T00:00:00Z", "2024-06-01T00:00:00Z"}
DateOf(s) == IF s = "2024-01-01T00:00:00Z" THEN 1 ELSE 2
IsDatetime(v) == "string" \in DOMAIN v /\ v.string \in IsoTimestamps

PageMin == 1
LimitMin == 1
LimitMax == 1000
PageDefault == 1
LimitDefault == 25

\* z.coerce.number().int().min(lo).max(hi).default(dflt) at one field; his is
\* the set of upper limits the field has (none for page, 1000 for limit)
CoercedInt(field, raw, lo, his, dflt) ==
  IF raw = Undefined THEN [issues |-> <<>>, value |-> Num(dflt)]
  ELSE LET n == IF IsChars(raw) THEN ToNumber(raw.chars) ELSE NaN IN
       IF n = NaN
       THEN [issues |-> <<Issue(field, "Expected number, received nan")>>,
             value |-> Undefined]
       ELSE IF n.number < lo
       THEN [issues |-> <<Issue(field, "too_small")>>, value |-> Undefined]
       ELSE IF \E hi \in his : n.number > hi
       THEN [issues |-> <<Issue(field, "too_big")>>, value |-> Undefined]
       ELSE [issues |-> <<>>, value |-> n]

\* z.string().datetime().optional() at one field
OptionalDatetime(field, raw) ==
  IF raw = Undefined \/ IsDatetime(raw) THEN [issues |-> <<>>, value |-> raw]
  ELSE [issues |-> <<Issue(field, "Invalid datetime")>>, value |-> Undefined]

\* QuerySchema = z.object({page, limit, updated_after, updated_before})
QuerySchemaParse(value) ==
  IF ~IsObject(value) THEN ParseFail(<<Issue("", "Required")>>)
  ELSE LET p == CoercedInt("page", value.page, PageMin, {}, PageDefault)
           l == CoercedInt("limit", value.limit, LimitMin, {LimitMax}, LimitDefault)
           a == OptionalDatetime("updated_after", value.updated_after)
           b == OptionalDatetime("updated_before", value.updated_before)
           issues == p.issues \o l.issues \o a.issues \o b.issues IN
       IF issues # <<>> THEN ParseFail(issues)
       ELSE ParseOk([object |-> "query", page |-> p.value, limit |-> l.value,
                     updated_after |-> a.value, updated_before |-> b.value])

\* DefaultQuerySchemaRefined = QuerySchema.refine((q) => !q.updated_after ||
\*   !q.updated_before || new Date(q.updated_after) <= new Date(q.updated_before))
\* The refinement runs on the parsed value of a QuerySchema that succeeded.
RefineOrder(q) ==
  \/ q.updated_after = Undefined
  \/ q.updated_before = Undefined
  \/ DateOf(q.updated_after.string) <= DateOf(q.updated_before.string)
DefaultQuerySchemaUnrefinedParse(value) == QuerySchemaParse(value)
DefaultQuerySchemaRefinedParse(value) ==
  LET parsed == QuerySchemaParse(value) IN
  IF ~parsed.success THEN parsed
  ELSE IF RefineOrder(parsed.data) THEN parsed
  ELSE ParseFail(<<Issue("", "'updated_after' must be <= 'updated_before'")>>)

\* the README's OrderQuerySchema, at its field status:
\*   z.object({ status: z.enum(["pending", "completed", "cancelled"]).optional() })
OrderStatuses == {"pending", "completed", "cancelled"}
OrderQuerySchemaParse(value) ==
  IF ~IsObject(value) THEN ParseFail(<<Issue("", "Required")>>)
  ELSE IF value.status = Undefined
          \/ ("string" \in DOMAIN value.status /\ value.status.string \in OrderStatuses)
  THEN ParseOk([object |-> "query", status |-> value.status])
  ELSE ParseFail(<<Issue("status", "Invalid enum value")>>)

\* left.and(right): both sides parse the same input; when both succeed the
\* results are merged (a field both have must have the same value)
IssuesOf(parsed) == IF parsed.success THEN <<>> ELSE parsed.issues
IntersectionParse(left, right) ==
  IF ~left.success \/ ~right.success
  THEN ParseFail(IssuesOf(left) \o IssuesOf(right))
  ELSE IF \E k \in DOMAIN left.data \cap DOMAIN right.data :
            left.data[k] # right.data[k]
  THEN ParseFail(<<Issue("", "Intersection results could not be merged")>>)
  ELSE ParseOk([k \in DOMAIN left.data \cup DOMAIN right.data |->
                  IF k \in DOMAIN right.data THEN right.data[k] ELSE left.data[k]])

\* withDefaultQuerySchema(schema) = schema.and(DefaultQuerySchemaRefined), for
\* the README's ExtendedQuerySchema = withDefaultQuerySchema(OrderQuerySchema)
withDefaultQuerySchemaParse(schemaParsed, value) ==
  IntersectionParse(schemaParsed, DefaultQuerySchemaRefinedParse(value))
ExtendedQuerySchemaParse(value) ==
  withDefaultQuerySchemaParse(OrderQuerySchemaParse(value), value)

\* a body schema as in the README: z.object({ name: z.string().min(1) })
BodyObject(name) == [object |-> "body", name |-> name]
NameSchemaParse(value) ==
  IF ~IsObject(value) THEN ParseFail(<<Issue("", "Required")>>)
  ELSE IF "string" \notin DOMAIN value.name
       THEN ParseFail(<<Issue("name", "Expected string")>>)
       ELSE IF value.name.string = ""
            THEN ParseFail(<<Issue("name", "too_small")>>)
            ELSE ParseOk(BodyObject(value.name))

\* querySchemaToRange({page, limit})
querySchemaToRangeOffByOne(schema) ==
  LET from == (schema.page - 1) * schema.limit
      to == from + schema.limit IN
  [from |-> from, to |-> to]
querySchemaToRange(schema) ==
  LET from == (schema.page - 1) * schema.limit
      to == from + schema.limit - 1 IN
  [from |-> from, to |-> to]

\* the schemas a route may be constructed with
SafeParse(schema, value) ==
  CASE schema = "NumericalIdSchema" -> NumericalIdSchemaParse(value)
    [] schema = "QuerySchema" -> QuerySchemaParse(value)
    [] schema = "ExtendedQuerySchema" -> ExtendedQuerySchemaParse(value)
    [] schema = "NameSchema" -> NameSchemaParse(value)

\* --------------------------------------------------------- validation.ts
\* validateWithSchema(schema, value, kind): the parsed data, or a Response
IsResponse(v) == {"status", "body"} \subseteq DOMAIN v

validateWithSchemaReturnsRaw(schema, value, kind) ==
  LET parsed == SafeParse(schema, value) IN
  IF parsed.success THEN value
  ELSE ResponseJson([error |-> Str("Invalid " \o kind), issues |-> parsed.issues], 400)
validateWithSchemaDropsIssues(schema, value, kind) ==
  LET parsed == SafeParse(schema, value) IN
  IF parsed.success THEN parsed.data
  ELSE ResponseJson([error |-> Str("Invalid " \o kind)], 400)
validateWithSchema(schema, value, kind) ==
  LET parsed == SafeParse(schema, value) IN
  IF parsed.success THEN parsed.data
  ELSE ResponseJson([error |-> Str("Invalid " \o kind), issues |-> parsed.issues], 400)

\* ------------------------------------------------------------- guard.ts
\* What options.auth(req) may resolve to: the AuthData of the README
\* ({user?: {id, role}, isAdmin}), or null when nobody is signed in.
AuthUser(id) == [id |-> id]
AuthAdmin == [user |-> AuthUser("u0"), isAdmin |-> TRUE]
AuthAlice == [user |-> AuthUser("u1"), isAdmin |-> FALSE]
AuthAnon == [user |-> Undefined, isAdmin |-> FALSE]
AuthValues == {AuthAdmin, AuthAlice, AuthAnon, Null}

\* the resources user logic loads: {ownerId}, or undefined when not found
Resource(owner) == [ownerId |-> owner]
Resources == {Resource("u1"), Resource("u2"), Undefined}

\* the outcome of calling a JavaScript function: a value, or a thrown error
Returned(v) == [throws |-> FALSE, value |-> v]
Threw(e) == [throws |-> TRUE, error |-> e]

\* options.guardChecks: the registered permission checks.  adminOnly,
\* loggedIn and canEdit are the README's; open takes no argument and
\* audited takes three.
GuardActions == {"adminOnly", "loggedIn", "canEdit", "open", "audited"}

\* permission.length: the declared number of parameters of a check
PermissionLength(action) ==
  CASE action = "adminOnly" -> 1
    [] action = "loggedIn" -> 1
    [] action = "canEdit" -> 2
    [] action = "open" -> 0
    [] action = "audited" -> 3

IsNullish(v) == v = Undefined \/ v = Null

\* guardChecks[action](auth, resource), evaluated as JavaScript evaluates it
\*   adminOnly: (auth) => auth.isAdmin
\*   loggedIn:  (auth) => !!auth.user
\*   canEdit:   (auth, resource) =>
\*                auth.isAdmin || auth.user?.id === resource.ownerId
\*   open:      () => true
\*   audited:   (auth, resource, log) => auth.isAdmin
CallPermission(action, auth, resource) ==
  IF action = "open" THEN Returned(TRUE)
  ELSE IF IsNullish(auth)
  THEN Threw(TypeError("Cannot read properties of null"))
  ELSE CASE action = "adminOnly" -> Returned(auth.isAdmin)
         [] action = "audited" -> Returned(auth.isAdmin)
         [] action = "loggedIn" -> Returned(auth.user # Undefined)
         [] action = "canEdit" ->
              IF auth.isAdmin THEN Returned(TRUE)
              ELSE IF IsNullish(resource)
              THEN Threw(TypeError("Cannot read properties of undefined"))
              ELSE Returned(auth.user # Undefined
                            /\ auth.user.id = resource.ownerId)

\* const needResource = permission.length === 2
needResourceUnlessBasic(action) == PermissionLength(action) # 1
needResource(action) == PermissionLength(action) = 2

\* function handler(resource?) of _permissionHandlerGenerator.  The result
\* says whether the registered check was evaluated, and with what.
HandlerResult(out, evaluated) == [out |-> out, evaluated |-> evaluated]

handlerAllows(action, authData, resource) ==
  HandlerResult(Returned(TRUE), FALSE)

handler(action, authData, resource) ==
  IF PermissionLength(action) = 1
  THEN HandlerResult(CallPermission(action, authData, Undefined), TRUE)
  ELSE IF PermissionLength(action) = 2
  THEN HandlerResult(CallPermission(action, authData, resource), TRUE)
  ELSE HandlerResult(Returned(FALSE), FALSE)

\* ------------------------------------------------------ route handler
\* The route is constructed once by handleRoute(fn, schemas, guard):
\*   guard   - "none", or the action of the Guard it was given
\*   schemas - for each of paramsSchema, querySchema and bodySchema "none"
\*             or the schema configured
\* arrivals is the set of requests the transport hands to the handler, and
\* run[r] is the activation of the handler for request r: its position
\* (pc), its local variables, the promise it returned (resp, or rejected)
\* and the log of what it has done.
\* call is one call of a response builder or pagination helper of errors.ts /
\* query.ts by user code: the function, its arguments and what it returned.
VARIABLES guard, schemas, arrivals, run, call

vars == <<guard, schemas, arrivals, run, call>>

None == [none |-> TRUE]
EmptyObject == [object |-> "empty"]

\* -- what a request and its context can carry (the inputs of a run) --
\* ctx.params: absent, or a promise of the path parameters
ParamsValues ==
  {Undefined, IdObject(Chars(<<"7">>)), IdObject(Chars(<<"4", "2">>)),
   IdObject(Chars(<<"x">>))}
\* the search parameters of req.url
QueryEntries ==
  {<<>>,
   <<<<"page", Chars(<<"2">>)>>, <<"limit", Chars(<<"1", "0">>)>>,
     <<"updated_after", Str("2024-01-01T00:00:00Z")>>,
     <<"updated_before", Str("2024-06-01T00:00:00Z")>>>>,
   <<<<"page", Chars(<<"0">>)>>, <<"status", Str("shipped")>>>>,
   <<<<"page", Chars(<<"1">>)>>, <<"page", Chars(<<"3">>)>>,
     <<"updated_before", Str("2024-01-01T00:00:00Z")>>>>,
   <<<<"updated_after", Str("2024-06-01T00:00:00Z")>>,
     <<"updated_before", Str("2024-01-01T00:00:00Z")>>,
     <<"status", Str("pending")>>>>,
   <<<<"updated_after", Str("2024-01-01T00:00:00Z")>>,
     <<"updated_before", Str("2024-01-01T00:00:00Z")>>>>}
\* the Content-Type header: absent (null), or a string given by its pieces
Header(pieces) == [pieces |-> pieces]
ContentTypes ==
  {Null,
   Header(<<>>),
   Header(<<"application/json">>),
   Header(<<"application/json", "; charset=utf-8">>),
   Header(<<"multipart/form-data", "; boundary=b">>),
   Header(<<"text/plain">>),
   Header(<<"text/plain", "; note=", "application/json">>)}
\* what req.json() can resolve to (it throws on malformed JSON)
JsonBodies == {BodyObject(Str("ann")), BodyObject(Num(5)), Null}
\* what req.formData() can resolve to: the (key, value) entries of the form
FormBodies ==
  {<<>>, <<<<"name", "ann">>>>, <<<<"name", "ann">>, <<"name", "bob">>>>}
\* what a failed decode throws
SyntaxError == [class |-> "SyntaxError", detail |-> "Unexpected token"]

\* what user logic can return, and what it (or auth, or ctx.params) can throw
UserResponses ==
  {httpOk([message |-> Str("Success")]), httpCreated([id |-> Str("123")]),
   httpError(403, "Forbidden")}
TaxonomyErrors ==
  {BadRequest(Undefined), BadRequest(Str("ID is required")),
   Unauthorized(Undefined), Forbidden(Undefined),
   Forbidden(Str("Access denied")), NotFound(Undefined),
   HttpError(418, "I am a teapot"), HttpError(302, "Moved")}
UnexpectedErrors == {PlainError("secret-1"), PlainError("secret-2")}
UserErrors ==
  TaxonomyErrors \cup UnexpectedErrors
    \cup {ZodError(<<Issue("email", "Invalid email")>>)}
AuthErrors ==
  {Unauthorized(Undefined), PlainError("secret-1"), PlainError("secret-2"),
   ZodError(<<Issue("token", "Invalid token")>>)}
ParamsErrors == {PlainError("secret-1"), NotFound(Undefined)}

\* -- string operations on a header value --
EmptyString == Header(<<>>)
StartsWith(str, piece) == Len(str.pieces) >= 1 /\ str.pieces[1] = piece
Includes(str, piece) == \E i \in 1..Len(str.pieces) : str.pieces[i] = piece
RECURSIVE Concat(_)
Concat(pieces) ==
  IF pieces = <<>> THEN "" ELSE pieces[1] \o Concat(Tail(pieces))

\* -- the activation record --
NewRun ==
  [pc |-> "idle", authData |-> Undefined, guarded |-> FALSE,
   paramsValue |-> Undefined, queryValue |-> Undefined,
   bodyValue |-> Undefined, reader |-> "none",
   resp |-> None, responses |-> 0, rejected |-> None, log |-> <<>>]

Note(s, ev, arg) == [s EXCEPT !.log = Append(@, [ev |-> ev, arg |-> arg])]
\* return response: the promise of the handler resolves
Respond(s, response) ==
  [s EXCEPT !.pc = "done", !.resp = response, !.responses = @ + 1]
\* an exception leaves the handler: its promise rejects
Reject(s, e) == [s EXCEPT !.pc = "done", !.rejected = e]
\* an exception is raised at a site of the run
Raise(s, site, e) == Note(s, "throw", [site |-> site, error |-> e])

\* -- handleRoute, from the last step to the first --

\* catch (e): the translation of whatever the try block threw

TranslateAlways500(e) == httpError(500, "Internal server error")

Translate(e) ==
  IF InstanceOfZodError(e)
  THEN ResponseJson([error |-> Str("Validation error"), issues |-> e.issues], 400)
  ELSE IF InstanceOfHttpError(e) THEN httpError(e.status, e.message)
  ELSE httpError(500, "Internal server error")

CatchBlock(s, e) ==
  IF InstanceOfZodError(e) \/ InstanceOfHttpError(e)
  THEN Respond(s, Translate(e))
  ELSE Respond(Note(s, "console.error", e), Translate(e))

\* return await fn({req, params, query, body, handleResourcePermission, authData})
CallFn(s) ==
  [Note(s, "fn", [params |-> s.paramsValue, query |-> s.queryValue,
                  body |-> s.bodyValue, authData |-> s.authData])
     EXCEPT !.pc = "fn"]

\* the value user logic returned is the value of the handler
ReturnFnAs200(s, response) ==
  Respond(Note(s, "return", response), httpOk(response.body))
ReturnFn(s, response) == Respond(Note(s, "return", response), response)

\* formDataToObject(fd), for the field "name" of the form
GetAll(fd, key) ==
  LET RECURSIVE Pick(_)
      Pick(es) == IF es = <<>> THEN <<>>
                  ELSE IF es[1][1] = key THEN <<Str(es[1][2])>> \o Pick(Tail(es))
                  ELSE Pick(Tail(es)) IN
  Pick(fd)
formDataToObject(fd) ==
  LET all == GetAll(fd, "name") IN
  BodyObject(IF all = <<>> THEN Undefined
             ELSE IF Len(all) > 1 THEN [array |-> all] ELSE all[1])

\* after the body is decoded: validate it against the body schema, call fn
AfterBody(s, rawBody) ==
  LET validated == validateWithSchema(schemas.bodySchema, rawBody, "body")
      s1 == Note(s, "bodySchema", rawBody) IN
  IF IsResponse(validated) THEN Respond(s1, validated)
  ELSE CallFn([s1 EXCEPT !.bodyValue = validated])

\* catch { ... } around the decoding of the body
DecodeFailedAs500(s, e) ==
  Respond(Raise(s, "body", e), httpError(500, "Internal server error"))
DecodeFailed(s, e) ==
  Respond(Raise(s, "body", e),
          ResponseJson([error |-> Str("Invalid request body")], 400))

\* if (schemas?.bodySchema): choose the decoder by the Content-Type
UnsupportedContentType(contentType) ==
  ResponseJson(
    [error |-> Str("Unsupported Content-Type: " \o Concat(contentType.pieces))], 415)

BodyStageChecksTypeFirst(s, header) ==
  LET contentType == Nullish(header, EmptyString)
      s1 == Note(s, "contentType", header) IN
  IF StartsWith(contentType, "multipart/form-data")
  THEN IF schemas.bodySchema = "none" THEN CallFn(s)
       ELSE [Note(s1, "readBody", Str("formData"))
               EXCEPT !.pc = "body", !.reader = "formData"]
  ELSE IF Includes(contentType, "application/json") \/ contentType = EmptyString
  THEN IF schemas.bodySchema = "none" THEN CallFn(s)
       ELSE [Note(s1, "readBody", Str("json")) EXCEPT !.pc = "body", !.reader = "json"]
  ELSE Respond(s1, UnsupportedContentType(contentType))

BodyStageReadsFirst(s, header) ==
  IF schemas.bodySchema = "none" THEN CallFn(s)
  ELSE LET contentType == Nullish(header, EmptyString)
           s1 == Note(s, "contentType", header) IN
       [Note(s1, "readBody", Str("json")) EXCEPT !.pc = "body", !.reader = "json"]

BodyStage(s, header) ==
  IF schemas.bodySchema = "none" THEN CallFn(s)
  ELSE LET contentType == Nullish(header, EmptyString)
           s1 == Note(s, "contentType", header) IN
       IF StartsWith(contentType, "multipart/form-data")
       THEN [Note(s1, "readBody", Str("formData"))
               EXCEPT !.pc = "body", !.reader = "formData"]
       ELSE IF Includes(contentType, "application/json")
               \/ contentType = EmptyString
       THEN [Note(s1, "readBody", Str("json"))
               EXCEPT !.pc = "body", !.reader = "json"]
       ELSE Respond(s1, UnsupportedContentType(contentType))

\* let queryValue = {}; if (schemas?.querySchema) ...
QueryStage(s, entries, header) ==
  LET s0 == [s EXCEPT !.queryValue = EmptyObject] IN
  IF schemas.querySchema = "none" THEN BodyStage(s0, header)
  ELSE LET rawQuery == FromEntries(entries)
           validated == validateWithSchema(schemas.querySchema, rawQuery, "query")
           s1 == Note(s0, "querySchema", rawQuery) IN
       IF IsResponse(validated) THEN Respond(s1, validated)
       ELSE BodyStage([s1 EXCEPT !.queryValue = validated], header)

\* const invalidatedParams = await ctx.params, resolved; then the rest of
\* the try block up to the next await
AfterParamsAlwaysEmpty(s, invalidatedParams, entries, header) ==
  QueryStage(Note([s EXCEPT !.paramsValue = EmptyObject], "params", invalidatedParams),
             entries, header)
AfterParams(s, invalidatedParams, entries, header) ==
  LET s0 == Note([s EXCEPT !.paramsValue = Nullish(invalidatedParams, EmptyObject)],
                 "params", invalidatedParams) IN
  IF schemas.paramsSchema = "none" THEN QueryStage(s0, entries, header)
  ELSE LET validated ==
             validateWithSchema(schemas.paramsSchema, invalidatedParams, "parameters")
           s1 == Note(s0, "paramsSchema", invalidatedParams) IN
       IF IsResponse(validated) THEN Respond(s1, validated)
       ELSE QueryStage([s1 EXCEPT !.paramsValue = validated], entries, header)

\* try { const invalidatedParams = await ctx.params
AwaitParams(s) == [Note(s, "resolveParams", Undefined) EXCEPT !.pc = "params"]

\* after options.auth(req) resolved to a: the rest of
\* _permissionHandlerGenerator and the guard branch of handleRoute

EvaluateGuard(s, a) ==
  LET s1 == [s EXCEPT !.authData = a] IN
  IF ~needResource(guard)
  THEN LET h == handler(guard, a, Undefined)
           s2 == IF h.evaluated
                 THEN Note(s1, "check", [auth |-> a, resource |-> Undefined])
                 ELSE s1 IN
       IF h.out.throws
       THEN Reject(Raise(s2, "check", h.out.error), h.out.error)
       ELSE IF ~h.out.value THEN Respond(s2, httpError(403, "Forbidden"))
       ELSE AwaitParams(s2)
  ELSE AwaitParams([s1 EXCEPT !.guarded = TRUE])

\* options.auth(req) threw: nothing around the guard branch catches it
AuthFailed(s, e) == Reject(Raise(s, "auth", e), e)

\* handler(req, ctx) is called: if (guard) await the permission handler
Start(s) ==
  IF guard # "none"
  THEN [Note(s, "auth", Undefined) EXCEPT !.pc = "auth"]
  ELSE AwaitParams(s)

\* handleResourcePermission(resource), as user logic calls it: the no-op
\* of a route without a resource-scoped guard, or the guarded closure.
\* The result is the run and what the call threw into user logic, if anything.
CallResult(s, out) == [run |-> s, out |-> out]

handleResourcePermissionAlwaysChecks(s, resource) ==
  LET s0 == Note(s, "hrp", resource) IN
  IF guard = "none" THEN CallResult(s0, Returned(Undefined))
  ELSE LET h == handler(guard, s.authData, resource)
           s1 == IF h.evaluated
                 THEN Note(s0, "check", [auth |-> s.authData, resource |-> resource])
                 ELSE s0 IN
       IF h.out.throws
       THEN CallResult(Raise(s1, "callback", h.out.error), Threw(h.out.error))
       ELSE IF ~h.out.value
       THEN CallResult(Raise(s1, "callback", Forbidden(Undefined)),
                       Threw(Forbidden(Undefined)))
       ELSE CallResult(s1, Returned(Undefined))

handleResourcePermissionInverted(s, resource) ==
  LET s0 == Note(s, "hrp", resource) IN
  IF ~s.guarded THEN CallResult(s0, Returned(Undefined))
  ELSE LET h == handler(guard, s.authData, resource)
           s1 == IF h.evaluated
                 THEN Note(s0, "check", [auth |-> s.authData, resource |-> resource])
                 ELSE s0 IN
       IF h.out.throws
       THEN CallResult(Raise(s1, "callback", h.out.error), Threw(h.out.error))
       ELSE IF h.out.value
       THEN CallResult(Raise(s1, "callback", Forbidden(Undefined)),
                       Threw(Forbidden(Undefined)))
       ELSE CallResult(s1, Returned(Undefined))

handleResourcePermission(s, resource) ==
  LET s0 == Note(s, "hrp", resource) IN
  IF ~s.guarded THEN CallResult(s0, Returned(Undefined))
  ELSE LET h == handler(guard, s.authData, resource)
           s1 == IF h.evaluated
                 THEN Note(s0, "check", [auth |-> s.authData, resource |-> resource])
                 ELSE s0 IN
       IF h.out.throws
       THEN CallResult(Raise(s1, "callback", h.out.error), Threw(h.out.error))
       ELSE IF ~h.out.value
       THEN CallResult(Raise(s1, "callback", Forbidden(Undefined)),
                       Threw(Forbidden(Undefined)))
       ELSE CallResult(s1, Returned(Undefined))

\* the number of entries of a log with the given event
RECURSIVE Count(_, _)
Count(log, ev) ==
  IF log = <<>> THEN 0
  ELSE (IF log[1].ev = ev THEN 1 ELSE 0) + Count(Tail(log), ev)

\* -------------------------------------------- calls of the pure helpers
NoCall == [op |-> "none"]
Call(op, args) == [op |-> op, args |-> args, out |-> None]

\* the data given to httpDeleted
DeletedData ==
  {Undefined, Null, [id |-> Str("7")], [deleted |-> Bool(FALSE)],
   [deleted |-> Bool(FALSE), id |-> Str("7")],
   [deleted |-> Bool(TRUE), name |-> Str("ann")]}
Totals == 0..MaxTotal
Pages == 1..MaxPage
\* any integer limit, zero and negatives included
AnyLimits == (0 - MaxLimit)..MaxLimit
\* the limits of a validated query; 10 and 25 are the README's
Limits == (1..MaxLimit) \cup {10, 25}
\* file names: the strings over the alphabet up to MaxNameLen, and "a b.pdf"
Alphabet == {"a", " ", ".", "/", "\\", "\"", "'", "(", ")", "*", "%"}
Filenames ==
  UNION {[1..n -> Alphabet] : n \in 0..MaxNameLen}
    \cup {<<"a", " ", "b", ".", "p", "d", "f">>}
Calls ==
  {Call("httpDeleted", [data |-> d]) : d \in DeletedData}
    \cup {Call("buildPageInfo", a) :
            a \in [total : Totals, page : Pages, limit : AnyLimits]}
    \cup {Call("querySchemaToRange", a) : a \in [page : Pages, limit : Limits]}
    \cup {Call("httpOkDownload", a) :
            a \in [filename : Filenames, contentType : {Undefined},
                   inline : {Undefined, Bool(TRUE), Bool(FALSE)}]}

Schemas ==
  [paramsSchema : {"none", "NumericalIdSchema"},
   querySchema : {"none", "QuerySchema", "ExtendedQuerySchema"},
   bodySchema : {"none", "NameSchema"}]

Init ==
  /\ guard \in {"none"} \cup GuardActions
  /\ schemas \in Schemas
  /\ arrivals = {1}
  /\ run = [r \in Reqs |-> NewRun]
  /\ call = NoCall

StepSharesAuthData(r, s) ==
  /\ run' = [q \in Reqs |->
               IF q = r THEN s ELSE [run[q] EXCEPT !.authData = s.authData]]
  /\ UNCHANGED <<guard, schemas, arrivals, call>>
Step(r, s) ==
  run' = [run EXCEPT ![r] = s] /\ UNCHANGED <<guard, schemas, arrivals, call>>

\* the transport calls handler(req, ctx)
Invoke(r) ==
  /\ r \in arrivals
  /\ run[r].pc = "idle"
  /\ Step(r, Start(run[r]))

\* options.auth(req) resolves
AuthResolves(r) ==
  /\ run[r].pc = "auth"
  /\ \E a \in AuthValues : Step(r, EvaluateGuard(run[r], a))

\* options.auth(req) throws
AuthThrows(r) ==
  /\ run[r].pc = "auth"
  /\ \E e \in AuthErrors : Step(r, AuthFailed(run[r], e))

\* ctx.params resolves (or is absent)
ParamsResolve(r) ==
  /\ run[r].pc = "params"
  /\ \E p \in ParamsValues, q \in QueryEntries, h \in ContentTypes :
       Step(r, AfterParams(run[r], p, q, h))

\* ctx.params rejects
ParamsReject(r) ==
  /\ run[r].pc = "params"
  /\ \E e \in ParamsErrors : Step(r, CatchBlock(Raise(run[r], "params", e), e))

\* req.json() / req.formData() resolves
BodyDecoded(r) ==
  /\ run[r].pc = "body"
  /\ \E raw \in IF run[r].reader = "json" THEN JsonBodies
                ELSE {formDataToObject(fd) : fd \in FormBodies} :
       Step(r, AfterBody(run[r], raw))

\* req.json() / req.formData() throws on a malformed body
BodyDecodeThrows(r) ==
  /\ run[r].pc = "body"
  /\ Step(r, DecodeFailed(run[r], SyntaxError))

\* user logic calls handleResourcePermission(resource); what the call
\* throws leaves user logic unless user logic catches it itself
UserChecksResource(r) ==
  /\ run[r].pc = "fn"
  /\ Count(run[r].log, "hrp") < MaxCalls
  /\ \E resource \in Resources, catches \in BOOLEAN :
       LET c == handleResourcePermission(run[r], resource) IN
       IF c.out.throws
       THEN IF catches THEN Step(r, Note(c.run, "caught", c.out.error))
            ELSE Step(r, CatchBlock(c.run, c.out.error))
       ELSE /\ ~catches
            /\ Step(r, c.run)

\* user logic returns a response
UserReturns(r) ==
  /\ run[r].pc = "fn"
  /\ \E response \in UserResponses : Step(r, ReturnFn(run[r], response))

\* user logic throws
UserThrows(r) ==
  /\ run[r].pc = "fn"
  /\ \E e \in UserErrors : Step(r, CatchBlock(Raise(run[r], "fn", e), e))

Next ==
  \E r \in Reqs :
    \/ Invoke(r)
    \/ AuthResolves(r)
    \/ AuthThrows(r)
    \/ ParamsResolve(r)
    \/ ParamsReject(r)
    \/ BodyDecoded(r)
    \/ BodyDecodeThrows(r)
    \/ UserChecksResource(r)
    \/ UserReturns(r)
    \/ UserThrows(r)

Spec == Init /\ [][Next]_vars

\* -- several requests in flight on one route and one guard --
\* Every request of arrivals is handed to the same handler; the activations
\* interleave at their awaits (auth, ctx.params, the body read, user logic).
\* Each request carries its own credentials: options.auth(req) is a function
\* of the request.
AuthOf(r) ==
  CASE r = 1 -> AuthAdmin
    [] r = 2 -> AuthAlice
    [] OTHER -> AuthAnon

InitConcurrent ==
  /\ guard \in {"adminOnly", "canEdit"}
  /\ schemas = [paramsSchema |-> "none", querySchema |-> "none",
                bodySchema |-> "NameSchema"]
  /\ arrivals = Reqs
  /\ run = [r \in Reqs |-> NewRun]
  /\ call = NoCall

\* options.auth(req) resolves for request r
AuthResolvesFor(r) ==
  /\ run[r].pc = "auth"
  /\ Step(r, EvaluateGuard(run[r], AuthOf(r)))

\* ctx.params resolves for a JSON request without path or query parameters
ParamsResolveJson(r) ==
  /\ run[r].pc = "params"
  /\ Step(r, AfterParams(run[r], Undefined, <<>>, Header(<<"application/json">>)))

\* user logic checks a resource it loaded and does not catch the denial
UserChecksLoaded(r) ==
  /\ run[r].pc = "fn"
  /\ Count(run[r].log, "hrp") < MaxCalls
  /\ \E resource \in {Resource("u1"), Resource("u2")} :
       LET c == handleResourcePermission(run[r], resource) IN
       IF c.out.throws THEN Step(r, CatchBlock(c.run, c.out.error))
       ELSE Step(r, c.run)

\* user logic returns 200, or throws NotFound
UserReturnsOk(r) ==
  /\ run[r].pc = "fn"
  /\ Step(r, ReturnFn(run[r], httpOk([message |-> Str("Success")])))
UserThrowsNotFound(r) ==
  /\ run[r].pc = "fn"
  /\ Step(r, CatchBlock(Raise(run[r], "fn", NotFound(Undefined)), NotFound(Undefined)))

NextConcurrent ==
  \E r \in Reqs :
    \/ Invoke(r)
    \/ AuthResolvesFor(r)
    \/ AuthThrows(r)
    \/ ParamsResolveJson(r)
    \/ ParamsReject(r)
    \/ BodyDecoded(r)
    \/ BodyDecodeThrows(r)
    \/ UserChecksLoaded(r)
    \/ UserReturnsOk(r)
    \/ UserThrowsNotFound(r)

SpecConcurrent == InitConcurrent /\ [][NextConcurrent]_vars

\* -- user code calling one of the pure helpers: no route is involved --
InitHelpers ==
  /\ guard = "none"
  /\ schemas = [paramsSchema |-> "none", querySchema |-> "none", bodySchema |-> "none"]
  /\ arrivals = {}
  /\ run = [r \in Reqs |-> NewRun]
  /\ call \in Calls

Returns(out) ==
  /\ call.out = None
  /\ call' = [call EXCEPT !.out = out]
  /\ UNCHANGED <<guard, schemas, arrivals, run>>

CallHttpDeleted ==
  /\ call.op = "httpDeleted"
  /\ Returns(httpDeleted(call.args.data))
CallBuildPageInfo ==
  /\ call.op = "buildPageInfo"
  /\ Returns(buildPageInfo(call.args.total, call.args.page, call.args.limit))
CallQuerySchemaToRange ==
  /\ call.op = "querySchemaToRange"
  /\ Returns(querySchemaToRange(call.args))
CallHttpOkDownload ==
  /\ call.op = "httpOkDownload"
  /\ Returns(httpOkDownload(Null, call.args))

NextHelpers ==
  \/ CallHttpDeleted
  \/ CallBuildPageInfo
  \/ CallQuerySchemaToRange
  \/ CallHttpOkDownload

SpecHelpers == InitHelpers /\ [][NextHelpers]_vars

\* ------------------------------------------------- reading a run's log
Has(s, ev) == \E i \in 1..Len(s.log) : s.log[i].ev = ev
ThrownAt(s, site) ==
  \E i \in 1..Len(s.log) : s.log[i].ev = "throw" /\ s.log[i].arg.site = site
LastEvent(s) == s.log[Len(s.log)]
\* the steps that come after guard evaluation
LaterSteps ==
  {"resolveParams", "paramsSchema", "querySchema", "contentType", "readBody",
   "bodySchema", "fn", "hrp"}
NoneOf(s, evs) == \A i \in 1..Len(s.log) : s.log[i].ev \notin evs
\* the position of the first entry with the event (0: none)
FirstIndex(s, ev) ==
  IF Has(s, ev) THEN CHOOSE i \in 1..Len(s.log) :
                       /\ s.log[i].ev = ev
                       /\ \A j \in 1..(i - 1) : s.log[j].ev # ev
  ELSE 0
HasGuard == guard # "none"
BasicGuard == HasGuard /\ PermissionLength(guard) = 1
ResourceGuard == HasGuard /\ PermissionLength(guard) = 2
\* auth has resolved for the run
Authenticated(s) == Has(s, "auth") /\ s.pc # "auth" /\ ~ThrownAt(s, "auth")

\* ------------------------------------------------------------ claims

\* C1: on a route guarded by a basic (one-argument) check that returns false
\* for the request's authData, the handler ends with 403 {error: {message:
\* "Forbidden"}} and no later step has happened: path parameters are not
\* resolved, no schema is applied, the body is not read, user logic is not
\* invoked.
C1_BasicDenialShortCircuits ==
  \A r \in Reqs :
    LET s == run[r] IN
    (/\ BasicGuard
     /\ Authenticated(s)
     /\ CallPermission(guard, s.authData, Undefined) = Returned(FALSE))
    => /\ s.pc = "done"
       /\ s.resp = ResponseJson([error |-> [message |-> "Forbidden"]], 403)
       /\ s.responses = 1
       /\ s.rejected = None
       /\ NoneOf(s, LaterSteps)

C1_Witness ==
  \E r \in Reqs :
    /\ BasicGuard
    /\ Authenticated(run[r])
    /\ CallPermission(guard, run[r].authData, Undefined) = Returned(FALSE)
    /\ run[r].pc = "done"
    /\ run[r].resp.status = 403

\* C2: on a route guarded by a resource-scoped (two-argument) check, guard
\* evaluation does not evaluate the check, never denies, and goes on to
\* parameter resolution, so validation and user logic run whatever the check
\* would return.  The guard's own Forbidden is raised only where user logic
\* called handleResourcePermission with a resource for which the check is
\* false; when every call was made with a resource that passes (or none was
\* made) and user logic raised nothing itself, user logic has returned and its
\* response is the handler's.
PassingCallsOnly(s) ==
  \A i \in 1..Len(s.log) :
    s.log[i].ev = "hrp"
    => CallPermission(guard, s.authData, s.log[i].arg) = Returned(TRUE)
FailingCall(s) ==
  \E i \in 1..Len(s.log) :
    /\ s.log[i].ev = "hrp"
    /\ CallPermission(guard, s.authData, s.log[i].arg) = Returned(FALSE)
GuardForbidden(s) ==
  \E i \in 1..Len(s.log) :
    /\ s.log[i].ev = "throw"
    /\ s.log[i].arg.site = "callback"
    /\ s.log[i].arg.error = Forbidden(Undefined)
C2_ResourceCheckDeferred ==
  \A r \in Reqs :
    LET s == run[r] IN
    (ResourceGuard /\ Authenticated(s))
    => /\ Has(s, "resolveParams")
       /\ \A i \in 1..Len(s.log) :
            s.log[i].ev = "check" => (Has(s, "fn") /\ FirstIndex(s, "fn") < i)
       /\ GuardForbidden(s) => FailingCall(s)
       /\ (s.pc = "done" /\ s.resp = httpError(403, "Forbidden")
             /\ ~ThrownAt(s, "fn") /\ ~ThrownAt(s, "params")
             /\ ~Has(s, "return"))
          => FailingCall(s)
       /\ (s.pc = "done" /\ Has(s, "fn") /\ PassingCallsOnly(s)
             /\ ~ThrownAt(s, "fn"))
          => /\ Has(s, "return")
             /\ s.resp = LastEvent(s).arg
             /\ s.responses = 1

C2_Witness ==
  \E r \in Reqs :
    LET s == run[r] IN
    /\ ResourceGuard
    /\ s.pc = "done"
    /\ FailingCall(s)
    /\ GuardForbidden(s)
    /\ s.resp = httpError(403, "Forbidden")
    /\ Has(s, "paramsSchema")

\* C3: whichever step fails by throwing (auth, the permission check, path
\* parameter resolution, body decoding, validation, user logic), the handler
\* completes with exactly one response and its promise never rejects.
C3_EveryFailureBecomesOneResponse ==
  \A r \in Reqs :
    run[r].pc = "done"
    => /\ run[r].rejected = None
       /\ run[r].resp # None
       /\ run[r].responses = 1

\* The part of C3 the code keeps: what is thrown inside the try block
\* (parameter resolution, body decoding, user logic and its callback)
\* becomes exactly one response.
TryBlockFailureBecomesOneResponse ==
  \A r \in Reqs :
    (run[r].pc = "done" /\ ~ThrownAt(run[r], "auth") /\ ~ThrownAt(run[r], "check"))
    => /\ run[r].rejected = None
       /\ run[r].resp # None
       /\ run[r].responses = 1

\* C4: the steps of a run happen in the fixed order guard evaluation,
\* parameter resolution / validation, query validation, body decoding /
\* validation, user logic; a step starts only after every earlier configured
\* step has happened and succeeded; the first step that fails produces the
\* response and stops the run.
StepOrder ==
  <<"auth", "resolveParams", "paramsSchema", "querySchema", "contentType",
    "readBody", "bodySchema", "fn">>
StepRank(ev) == CHOOSE k \in 1..Len(StepOrder) : StepOrder[k] = ev
IsStep(ev) == \E k \in 1..Len(StepOrder) : StepOrder[k] = ev
\* the steps the route's configuration asks for
Configured(ev) ==
  CASE ev = "auth" -> HasGuard
    [] ev = "paramsSchema" -> schemas.paramsSchema # "none"
    [] ev = "querySchema" -> schemas.querySchema # "none"
    [] ev \in {"contentType", "readBody", "bodySchema"} -> schemas.bodySchema # "none"
    [] OTHER -> TRUE
\* the entry at i records a step that failed
FailedAt(s, i) ==
  LET e == s.log[i] IN
  \/ e.ev = "throw" /\ e.arg.site \in {"auth", "check", "params", "body"}
  \/ e.ev = "paramsSchema" /\ ~SafeParse(schemas.paramsSchema, e.arg).success
  \/ e.ev = "querySchema" /\ ~SafeParse(schemas.querySchema, e.arg).success
  \/ e.ev = "bodySchema" /\ ~SafeParse(schemas.bodySchema, e.arg).success
StepsInOrder(s) ==
  \A i, j \in 1..Len(s.log) :
    (i < j /\ IsStep(s.log[i].ev) /\ IsStep(s.log[j].ev))
    => StepRank(s.log[i].ev) < StepRank(s.log[j].ev)
EarlierStepsDone(s) ==
  \A j \in 1..Len(s.log) :
    IsStep(s.log[j].ev)
    => \A k \in 1..(StepRank(s.log[j].ev) - 1) :
         Configured(StepOrder[k])
         => \E i \in 1..(j - 1) : s.log[i].ev = StepOrder[k] /\ ~FailedAt(s, i)
NothingAfterFailure(s) ==
  \A i \in 1..Len(s.log) :
    FailedAt(s, i)
    => /\ s.pc = "done"
       /\ \A j \in (i + 1)..Len(s.log) : s.log[j].ev = "console.error"
FailureResponds(s) ==
  \A i \in 1..Len(s.log) :
    FailedAt(s, i) => (s.resp # None /\ s.responses = 1 /\ s.rejected = None)

C4_FixedOrderFirstFailureResponds ==
  \A r \in Reqs :
    /\ StepsInOrder(run[r])
    /\ EarlierStepsDone(run[r])
    /\ NothingAfterFailure(run[r])
    /\ FailureResponds(run[r])

\* The part of C4 the code keeps: the order of the steps, and that nothing
\* runs after the first failure.
StepsOrderedAndShortCircuit ==
  \A r \in Reqs :
    /\ StepsInOrder(run[r])
    /\ EarlierStepsDone(run[r])
    /\ NothingAfterFailure(run[r])

\* the last exception raised in the run
LastThrow(s) ==
  s.log[CHOOSE i \in 1..Len(s.log) :
          /\ s.log[i].ev = "throw"
          /\ \A j \in (i + 1)..Len(s.log) : s.log[j].ev # "throw"].arg
\* user logic was invoked and ended by an exception (its own, or one its
\* call of handleResourcePermission raised and it did not catch)
UserLogicThrew(s) == s.pc = "done" /\ Has(s, "fn") /\ ~Has(s, "return")

\* C5: when user logic, or the handleResourcePermission callback it calls,
\* throws a taxonomy error HttpError(status, message), the response has
\* exactly that status and the body {error: {message}}: 400 "Bad request",
\* 401 "Unauthorized", 403 "Forbidden", 404 "Not found" for the four named
\* errors thrown without a message, the given message when one is given; a
\* thrown validation-engine exception gives 400 "Validation error" with the
\* exception's issues.
ExpectedStatus(class) ==
  CASE class = "BadRequest" -> 400
    [] class = "Unauthorized" -> 401
    [] class = "Forbidden" -> 403
    [] class = "NotFound" -> 404
ExpectedDefault(class) ==
  CASE class = "BadRequest" -> "Bad request"
    [] class = "Unauthorized" -> "Unauthorized"
    [] class = "Forbidden" -> "Forbidden"
    [] class = "NotFound" -> "Not found"
C5_ThrownErrorsAreTranslated ==
  \A r \in Reqs :
    LET s == run[r] IN
    UserLogicThrew(s)
    => LET e == LastThrow(s).error IN
       /\ s.rejected = None
       /\ s.responses = 1
       /\ InstanceOfHttpError(e)
          => s.resp = [status |-> e.status,
                       body |-> [error |-> [message |-> e.message]]]
       /\ \A msg \in {Undefined, Str("ID is required"), Str("Access denied")} :
            \A class \in {"BadRequest", "Unauthorized", "Forbidden", "NotFound"} :
              (e = CASE class = "BadRequest" -> BadRequest(msg)
                     [] class = "Unauthorized" -> Unauthorized(msg)
                     [] class = "Forbidden" -> Forbidden(msg)
                     [] class = "NotFound" -> NotFound(msg))
              => s.resp =
                   [status |-> ExpectedStatus(class),
                    body |-> [error |->
                      [message |-> IF msg = Undefined THEN ExpectedDefault(class)
                                   ELSE msg.string]]]
       /\ e.class = "ZodError"
          => s.resp = [status |-> 400,
                       body |-> [error |-> Str("Validation error"),
                                 issues |-> e.issues]]

C5_Witness ==
  \E r \in Reqs :
    /\ UserLogicThrew(run[r])
    /\ LastThrow(run[r]) = [site |-> "fn", error |-> Forbidden(Str("Access denied"))]
    /\ run[r].resp.status = 403

\* C6: any thrown value that is neither a taxonomy error nor a validation
\* engine exception yields 500 {error: {message: "Internal server error"}},
\* whatever the content of the thrown value: no detail of it reaches the
\* caller.  (A failed decode of the body is the malformed-body case, not an
\* unexpected error.)
Unexpected(e) == ~InstanceOfHttpError(e) /\ ~InstanceOfZodError(e)
\* the entry at i is an unexpected error that nothing in user logic caught
UnexpectedAt(s, i) ==
  /\ s.log[i].ev = "throw"
  /\ s.log[i].arg.site # "body"
  /\ Unexpected(s.log[i].arg.error)
  /\ ~(i < Len(s.log) /\ s.log[i + 1].ev = "caught")
C6_UnexpectedErrorsAreUniform500 ==
  \A r \in Reqs :
    \A i \in 1..Len(run[r].log) :
      UnexpectedAt(run[r], i)
      => /\ run[r].pc = "done"
         /\ run[r].rejected = None
         /\ run[r].resp =
              [status |-> 500, body |-> [error |-> [message |-> "Internal server error"]]]

\* The part of C6 the code keeps: an unexpected error thrown inside the try
\* block (parameter resolution, user logic, its callback) yields the 500.
TryBlockUnexpectedErrorsAre500 ==
  \A r \in Reqs :
    \A i \in 1..Len(run[r].log) :
      (UnexpectedAt(run[r], i) /\ run[r].log[i].arg.site \notin {"auth", "check"})
      => /\ run[r].pc = "done"
         /\ run[r].rejected = None
         /\ run[r].resp =
              [status |-> 500, body |-> [error |-> [message |-> "Internal server error"]]]

\* C7: whenever user logic is invoked and returns a response, the handler
\* returns exactly that response (same status, same body); in particular a
\* request to a route with no guard and no schemas reaches user logic once
\* its path parameters have resolved, and the handler returns what user
\* logic returns.
NoSchemas ==
  /\ schemas.paramsSchema = "none"
  /\ schemas.querySchema = "none"
  /\ schemas.bodySchema = "none"
ParamsResolved(s) == Has(s, "resolveParams") /\ s.pc # "params" /\ ~ThrownAt(s, "params")
C7_UserResponseReturnedUnaltered ==
  \A r \in Reqs :
    LET s == run[r] IN
    /\ Has(s, "return")
       => /\ s.pc = "done"
          /\ LastEvent(s).ev = "return"
          /\ s.resp = LastEvent(s).arg
          /\ s.rejected = None
          /\ s.responses = 1
    /\ (~HasGuard /\ NoSchemas /\ s.pc # "idle")
       => /\ ~Has(s, "auth")
          /\ Has(s, "resolveParams")
          /\ ParamsResolved(s) => Has(s, "fn")

C7_Witness ==
  \E r \in Reqs :
    /\ ~HasGuard
    /\ NoSchemas
    /\ Has(run[r], "return")
    /\ run[r].resp = httpCreated([id |-> Str("123")])

\* C8: when a body schema is configured and decoding the body throws
\* (malformed JSON or a malformed form body), the handler ends with 400
\* {error: "Invalid request body"}, never 500, and neither the body schema
\* nor user logic is run.
C8_MalformedBodyIs400 ==
  \A r \in Reqs :
    LET s == run[r] IN
    ThrownAt(s, "body")
    => /\ schemas.bodySchema # "none"
       /\ s.pc = "done"
       /\ s.resp = [status |-> 400, body |-> [error |-> Str("Invalid request body")]]
       /\ s.responses = 1
       /\ s.rejected = None
       /\ ~Has(s, "bodySchema")
       /\ ~Has(s, "fn")

C8_Witness ==
  \E r \in Reqs :
    /\ ThrownAt(run[r], "body")
    /\ run[r].reader = "formData"
    /\ run[r].resp.status = 400

\* C9 as stated: with a body schema configured, a Content-Type that is
\* present and whose media type is neither multipart/form-data nor
\* application/json gives 415 {error: "Unsupported Content-Type: <type>"}
\* without the body being read, the body schema applied or user logic
\* invoked; an absent Content-Type is decoded as JSON and never gives 415.
\* The media type of a header is what precedes its first parameter.
IsParameter(piece) == piece \in {"; charset=utf-8", "; boundary=b", "; note="}
RECURSIVE MediaTypePieces(_)
MediaTypePieces(pieces) ==
  IF pieces = <<>> \/ IsParameter(pieces[1]) THEN <<>>
  ELSE <<pieces[1]>> \o MediaTypePieces(Tail(pieces))
MediaType(h) == Concat(MediaTypePieces(h.pieces))
Is415Naming(s, h) ==
  /\ s.pc = "done"
  /\ s.resp = [status |-> 415,
               body |-> [error |-> Str("Unsupported Content-Type: " \o Concat(h.pieces))]]
  /\ s.responses = 1
  /\ ~Has(s, "readBody")
  /\ ~Has(s, "bodySchema")
  /\ ~Has(s, "fn")
DecodedAsJson(s) ==
  /\ s.reader = "json"
  /\ Has(s, "readBody")
  /\ s.pc = "done" => s.resp.status # 415
C10_WrongArityFailsClosed ==
  \A r \in Reqs :
    LET s == run[r] IN
    \A i \in 1..Len(s.log) :
      (s.guarded /\ ~IsNullish(s.authData)
         /\ s.log[i].ev = "hrp" /\ s.log[i].arg = Undefined)
      => /\ i < Len(s.log)
         /\ s.log[i + 1] = [ev |-> "throw",
                            arg |-> [site |-> "callback", error |-> Forbidden(Undefined)]]

\* a query (raw or parsed) with both timestamps, updated_after the later one
BothPresent(q) ==
  /\ IsObject(q)
  /\ {"updated_after", "updated_before"} \subseteq DOMAIN q
  /\ IsDatetime(q.updated_after)
  /\ IsDatetime(q.updated_before)
AfterIsLater(q) ==
  BothPresent(q) /\ DateOf(q.updated_after.string) > DateOf(q.updated_before.string)
\* the raw query the run validated (its query schema has been applied)
RawQuery(s) == s.log[FirstIndex(s, "querySchema")].arg
\* the run ended at query validation
QueryRejected(s) == s.pc = "done" /\ LastEvent(s).ev = "querySchema"

\* C14: on a route whose query schema is the exported QuerySchema, user logic
\* never receives a query with updated_after later than updated_before:
\* every such query is rejected at query validation.
C14_QuerySchemaEnforcesOrder ==
  \A r \in Reqs :
    LET s == run[r] IN
    schemas.querySchema = "QuerySchema"
    => /\ \A i \in 1..Len(s.log) :
            s.log[i].ev = "fn" => ~AfterIsLater(s.log[i].arg.query)
       /\ (Has(s, "querySchema") /\ AfterIsLater(RawQuery(s))
           => QueryRejected(s) /\ s.resp.status = 400)

\* C15: on a route whose query schema is withDefaultQuerySchema(S), a request
\* whose query has updated_after later than updated_before is answered 400
\* "Invalid query" and user logic is not invoked; when updated_after <=
\* updated_before, or either is absent, the rule does not reject: a query
\* that S and the field rules of QuerySchema accept passes query validation.
C15_ExtendedSchemaRejectsLaterAfter ==
  \A r \in Reqs :
    LET s == run[r] IN
    (schemas.querySchema = "ExtendedQuerySchema" /\ Has(s, "querySchema"))
    => /\ AfterIsLater(RawQuery(s))
          => /\ QueryRejected(s)
             /\ s.resp.status = 400
             /\ s.resp.body.error = Str("Invalid query")
             /\ s.responses = 1
             /\ ~Has(s, "fn")
       /\ (/\ ~AfterIsLater(RawQuery(s))
           /\ OrderQuerySchemaParse(RawQuery(s)).success
           /\ QuerySchemaParse(RawQuery(s)).success)
          => ~QueryRejected(s)

C15_Witness ==
  \E r \in Reqs :
    /\ schemas.querySchema = "ExtendedQuerySchema"
    /\ Has(run[r], "querySchema")
    /\ AfterIsLater(RawQuery(run[r]))
    /\ OrderQuerySchemaParse(RawQuery(run[r])).success
    /\ QueryRejected(run[r])
    /\ run[r].resp.status = 400

\* C17: with several requests in flight on the same route and guard, under
\* every interleaving of their awaits, each request's outcome is its own: the
\* authData its basic check, its handleResourcePermission callback and its
\* user logic get is what auth returned for that request, a denial is the
\* verdict of the check on that request's authData, a step of one request
\* changes no other request's activation, and guard and schemas never change.
OwnAuthDataOnly(r) ==
  LET s == run[r] IN
  /\ \A i \in 1..Len(s.log) :
       /\ s.log[i].ev = "fn" => s.log[i].arg.authData = AuthOf(r)
       /\ s.log[i].ev = "check" => s.log[i].arg.auth = AuthOf(r)
  /\ (Authenticated(s) => s.authData = AuthOf(r))
  /\ (BasicGuard /\ Authenticated(s)
      => (Has(s, "resolveParams")
          <=> CallPermission(guard, AuthOf(r), Undefined) = Returned(TRUE)))
  /\ GuardForbidden(s)
     => \E i \in 1..Len(s.log) :
          /\ s.log[i].ev = "hrp"
          /\ CallPermission(guard, AuthOf(r), s.log[i].arg) = Returned(FALSE)
OneRequestSteps ==
  /\ \E r \in Reqs : \A q \in Reqs \ {r} : run'[q] = run[q]
  /\ guard' = guard
  /\ schemas' = schemas
C17_ConcurrentRequestsAreIndependent ==
  /\ [](\A r \in Reqs : OwnAuthDataOnly(r))
  /\ [][OneRequestSteps]_vars

\* two requests in flight at once, the second one overtaking the first:
\* request 2 reached user logic while request 1 still awaits auth, and
\* request 1 then went on to its own user logic
C17_Witness ==
  /\ guard = "canEdit"
  /\ Has(run[1], "auth") /\ Has(run[2], "auth")
  /\ Has(run[2], "fn") /\ Has(run[1], "fn")
  /\ run[2].pc = "done" /\ run[1].pc = "fn"
  /\ run[1].authData = AuthAdmin
  /\ run[2].authData = AuthAlice
  /\ GuardForbidden(run[2])

\* C18: no step is retried: in every run auth, the path-parameter
\* resolution, the body read and user logic are each invoked at most once,
\* and a failure of any of them is surfaced once, as the terminal response.
AwaitedSteps == {"auth", "resolveParams", "readBody", "fn"}
FailureSites == {"auth", "params", "body", "fn"}
InvokedAtMostOnce(s) == \A ev \in AwaitedSteps : Count(s.log, ev) <= 1
\* nothing is invoked after the failure
NoSecondAttempt(s) ==
  \A i \in 1..Len(s.log) :
    (s.log[i].ev = "throw" /\ s.log[i].arg.site \in FailureSites)
    => /\ s.pc = "done"
       /\ \A j \in (i + 1)..Len(s.log) : s.log[j].ev = "console.error"
C18_NoRetryFailureIsTerminalResponse ==
  \A r \in Reqs :
    LET s == run[r] IN
    /\ InvokedAtMostOnce(s)
    /\ NoSecondAttempt(s)
    /\ \A site \in FailureSites :
         ThrownAt(s, site)
         => /\ s.resp # None
            /\ s.responses = 1
            /\ s.rejected = None

\* The part of C18 the code keeps: every awaited step is invoked at most
\* once and nothing is invoked after one of them failed.
NoStepIsRetried ==
  \A r \in Reqs : InvokedAtMostOnce(run[r]) /\ NoSecondAttempt(run[r])

\* what ctx.params resolved to in the run
ResolvedParams(s) == s.log[FirstIndex(s, "params")].arg

\* C19 as stated: when no parameter schema is configured, the params value
\* handed to user logic is the empty mapping, whatever ctx.params resolves to.
C19_ParamsDefaultToEmpty ==
  \A r \in Reqs :
    \A i \in 1..Len(run[r].log) :
      (schemas.paramsSchema = "none" /\ run[r].log[i].ev = "fn")
      => run[r].log[i].arg.params = EmptyObject

\* C19, amended: when no parameter schema is configured, the params value
\* handed to user logic is what ctx.params resolved to, unvalidated, and the
\* empty mapping only when it resolved to nothing (undefined or null).
C19_ParamsPassedThroughUnvalidated ==
  \A r \in Reqs :
    LET s == run[r] IN
    \A i \in 1..Len(s.log) :
      (schemas.paramsSchema = "none" /\ s.log[i].ev = "fn")
      => /\ Has(s, "params")
         /\ ~Has(s, "paramsSchema")
         /\ (IsNullish(ResolvedParams(s)) => s.log[i].arg.params = EmptyObject)
         /\ (~IsNullish(ResolvedParams(s))
             => s.log[i].arg.params = ResolvedParams(s))

C19_Witness ==
  \E r \in Reqs :
    /\ schemas.paramsSchema = "none"
    /\ Has(run[r], "fn")
    /\ ResolvedParams(run[r]) = IdObject(Chars(<<"x">>))
    /\ run[r].paramsValue = IdObject(Chars(<<"x">>))

\* a response the pipeline produced itself: not the value user logic returned
PipelineResponse(s) == s.resp # None /\ LastEvent(s).ev # "return"
\* the failure behind it
ValidationSteps == {"paramsSchema", "querySchema", "bodySchema"}
Translated(s) ==
  LastEvent(s).ev = "console.error"
  \/ (LastEvent(s).ev = "throw" /\ LastEvent(s).arg.site # "body")
TranslatedError(s) == LastThrow(s).error
ValidationFailure(s) ==
  \/ LastEvent(s).ev \in ValidationSteps
  \/ (Translated(s) /\ InstanceOfZodError(TranslatedError(s)))
DecodeOrContentTypeFailure(s) ==
  \/ LastEvent(s).ev = "contentType"
  \/ (LastEvent(s).ev = "throw" /\ LastEvent(s).arg.site = "body")
GuardDenial(s) == LastEvent(s).ev \in {"auth", "check"}
ErrorIsString(body) == "error" \in DOMAIN body /\ DOMAIN body.error = {"string"}
ErrorIsMessage(body) == "error" \in DOMAIN body /\ DOMAIN body.error = {"message"}
HasIssues(body) == "issues" \in DOMAIN body /\ Len(body.issues) >= 1
ErrorBodyShape(s) ==
  /\ (ValidationFailure(s) => ErrorIsString(s.resp.body) /\ HasIssues(s.resp.body))
  /\ (DecodeOrContentTypeFailure(s) => ErrorIsString(s.resp.body))
  /\ (GuardDenial(s) => ErrorIsMessage(s.resp.body))
  /\ (Translated(s) /\ ~InstanceOfZodError(TranslatedError(s))
      => ErrorIsMessage(s.resp.body))
  /\ (ValidationFailure(s) \/ DecodeOrContentTypeFailure(s) \/ GuardDenial(s)
        \/ Translated(s))

\* C20 as stated: every response the pipeline itself produces has a status
\* >= 400 and a JSON body with an error field, a string for validation,
\* decode and content-type failures, a {message} object for guard denial and
\* translated exceptions, with an issues list for validation failures.
C20_PipelineResponsesAreErrors ==
  \A r \in Reqs :
    PipelineResponse(run[r])
    => run[r].resp.status >= 400 /\ ErrorBodyShape(run[r])

\* C20, amended: the body is as stated; the status is >= 400 except where
\* the response translates a thrown HttpError that itself carries a status
\* below 400, whose status is used as it is.
C20_PipelineResponsesHaveErrorBodies ==
  \A r \in Reqs :
    LET s == run[r] IN
    PipelineResponse(s)
    => /\ ErrorBodyShape(s)
       /\ IF Translated(s) /\ InstanceOfHttpError(TranslatedError(s))
          THEN s.resp.status = TranslatedError(s).status
          ELSE s.resp.status >= 400

C20_Witness ==
  \E r \in Reqs :
    /\ PipelineResponse(run[r])
    /\ Translated(run[r])
    /\ TranslatedError(run[r]) = HttpError(302, "Moved")
    /\ run[r].resp = ResponseJson([error |-> [message |-> "Moved"]], 302)

\* C21: guard evaluation classifies the check by its declared arity alone.
\* Once auth has resolved: the check is deferred to the callback (needResource)
\* exactly when it takes two arguments; a check of one argument is evaluated
\* at once, as check(authData), and its verdict decides; a check of any other
\* arity is never evaluated and the request is answered 403 without any
\* later step and without user logic.
EvaluatedAtOnce(s) ==
  /\ Has(s, "check")
  /\ s.log[FirstIndex(s, "check")].arg = [auth |-> s.authData, resource |-> Undefined]
  /\ ~Has(s, "fn") \/ FirstIndex(s, "check") < FirstIndex(s, "fn")
  /\ ~Has(s, "resolveParams")
     \/ FirstIndex(s, "check") < FirstIndex(s, "resolveParams")
AnsweredForbidden(s) ==
  /\ s.pc = "done"
  /\ s.resp = ResponseJson([error |-> [message |-> "Forbidden"]], 403)
  /\ NoneOf(s, LaterSteps)
C21_ArityAloneClassifies ==
  \A r \in Reqs :
    LET s == run[r] IN
    (HasGuard /\ Authenticated(s))
    => /\ s.guarded <=> PermissionLength(guard) = 2
       /\ PermissionLength(guard) = 2
          => Has(s, "resolveParams") /\ (Has(s, "check") => Has(s, "hrp"))
       /\ PermissionLength(guard) = 1
          => /\ EvaluatedAtOnce(s)
             /\ LET out == CallPermission(guard, s.authData, Undefined) IN
                /\ out = Returned(TRUE) => Has(s, "resolveParams")
                /\ out = Returned(FALSE) => AnsweredForbidden(s)
                /\ out.throws => ThrownAt(s, "check") /\ NoneOf(s, LaterSteps)
       /\ PermissionLength(guard) \notin {1, 2}
          => /\ AnsweredForbidden(s)
             /\ ~Has(s, "check")
             /\ s.responses = 1

C21_Witness ==
  \E r \in Reqs :
    /\ guard = "audited"
    /\ Authenticated(run[r])
    /\ run[r].authData = AuthAdmin
    /\ run[r].resp.status = 403
    /\ ~Has(run[r], "check")

\* the validation stages in pipeline order, the schema each one applies and
\* the name it has in the error string
Stages == <<"paramsSchema", "querySchema", "bodySchema">>
StageKind(ev) ==
  CASE ev = "paramsSchema" -> "parameters"
    [] ev = "querySchema" -> "query"
    [] ev = "bodySchema" -> "body"
\* the raw input the stage validated in the run, and the validator's verdict
StageInput(s, ev) == s.log[FirstIndex(s, ev)].arg
StageParsed(s, ev) == SafeParse(schemas[ev], StageInput(s, ev))
StageNames == {Stages[k] : k \in 1..Len(Stages)}
StageRank(ev) == CHOOSE k \in 1..Len(Stages) : Stages[k] = ev
\* what user logic was handed for the stage
StageField(ev) ==
  CASE ev = "paramsSchema" -> "params"
    [] ev = "querySchema" -> "query"
    [] ev = "bodySchema" -> "body"
HandedToFn(s, ev) == s.log[FirstIndex(s, "fn")].arg[StageField(ev)]

\* C22: when a configured schema rejects its input the response is 400 with
\* the error string of the first rejecting stage ("Invalid parameters",
\* "Invalid query" or "Invalid body") and the validator's issues unmodified,
\* and no later stage nor user logic runs; when it accepts, user logic is
\* handed the validator's output data for that stage, not the raw input.
C22_RejectionNamesStageAcceptanceGivesData ==
  \A r \in Reqs :
    LET log == run[r].log IN
    \A i \in 1..Len(log) :
      LET ev == log[i].ev IN
      ev \in StageNames
      => LET parsed == SafeParse(schemas[ev], log[i].arg) IN
         /\ schemas[ev] # "none"
         \* the stage validates once, after the stages before it, and no
         \* stage runs after a rejection
         /\ \A j \in 1..(i - 1) :
              log[j].ev \in StageNames
              => StageRank(log[j].ev) < StageRank(ev)
         /\ IF parsed.success
            THEN \A m \in 1..Len(log) :
                   log[m].ev = "fn"
                   => log[m].arg[StageField(ev)] = parsed.data
            ELSE /\ run[r].pc = "done"
                 /\ i = Len(log)
                 /\ \A m \in 1..Len(log) : log[m].ev # "fn"
                 /\ run[r].responses = 1
                 /\ run[r].resp =
                      ResponseJson([error |-> Str("Invalid " \o StageKind(ev)),
                                    issues |-> parsed.issues], 400)

\* user logic got the coerced id and the defaulted query, neither of which
\* is the raw input
C22_WitnessAccepted ==
  \E r \in Reqs :
    /\ schemas.paramsSchema = "NumericalIdSchema"
    /\ schemas.querySchema = "QuerySchema"
    /\ Has(run[r], "fn")
    /\ StageInput(run[r], "paramsSchema") = IdObject(Chars(<<"4", "2">>))
    /\ HandedToFn(run[r], "paramsSchema") = IdObject(Num(42))
    /\ StageInput(run[r], "querySchema") = FromEntries(<<>>)
    /\ HandedToFn(run[r], "querySchema").page = Num(PageDefault)
    /\ HandedToFn(run[r], "querySchema").limit = Num(LimitDefault)

\* a rejection by the second stage after the first accepted
C22_Witness ==
  \E r \in Reqs :
    /\ Has(run[r], "paramsSchema")
    /\ StageParsed(run[r], "paramsSchema").success
    /\ Has(run[r], "querySchema")
    /\ ~StageParsed(run[r], "querySchema").success
    /\ run[r].pc = "done"
    /\ run[r].resp.status = 400
    /\ run[r].resp.body.error = Str("Invalid query")

\* C23: on a route with no guard, or with a guard whose basic check passed,
\* the handleResourcePermission given to user logic is a no-op: whatever the
\* resource, a call of it returns without throwing and without evaluating a
\* permission check, so it causes no 403; and on a route with no guard auth
\* is never invoked and authData is undefined.
BasicCheckPassed(s) ==
  /\ BasicGuard
  /\ Authenticated(s)
  /\ CallPermission(guard, s.authData, Undefined) = Returned(TRUE)
\* nothing but the call itself is logged for a call of the callback
CallbackIsNoOp(s) ==
  /\ ~s.guarded
  /\ ~ThrownAt(s, "callback")
  /\ ~Has(s, "caught")
  /\ ~GuardForbidden(s)
  /\ \A i \in 1..Len(s.log) :
       s.log[i].ev = "check" => (~Has(s, "fn") \/ i < FirstIndex(s, "fn"))
  /\ \A i \in 1..Len(s.log) :
       (s.log[i].ev = "hrp" /\ i < Len(s.log))
       => s.log[i + 1].ev \in {"hrp", "return", "throw"}
C23_CallbackIsNoOpUnlessResourceGuard ==
  \A r \in Reqs :
    LET s == run[r] IN
    /\ (~HasGuard \/ BasicCheckPassed(s)) => CallbackIsNoOp(s)
    /\ ~HasGuard
       => /\ ~Has(s, "auth")
          /\ ~Has(s, "check")
          /\ s.authData = Undefined
          /\ \A i \in 1..Len(s.log) :
               s.log[i].ev = "fn" => s.log[i].arg.authData = Undefined

\* user logic of a route whose basic check passed called the callback with
\* no resource at all, and went on to return its response
C23_Witness ==
  \E r \in Reqs :
    /\ BasicCheckPassed(run[r])
    /\ \E i \in 1..Len(run[r].log) :
         run[r].log[i] = [ev |-> "hrp", arg |-> Undefined]
    /\ LastEvent(run[r]).ev = "return"
    /\ run[r].resp.status = 200

\* C24: when no body schema is configured the pipeline never inspects the
\* Content-Type and never reads the request body: the body handed to user
\* logic is undefined, and the pipeline produces no 415 and no 400 "Invalid
\* request body", whatever the content type.
BodySteps == {"contentType", "readBody", "bodySchema"}
C24_NoBodySchemaLeavesBodyUnread ==
  \A r \in Reqs :
    LET s == run[r] IN
    schemas.bodySchema = "none"
    => /\ NoneOf(s, BodySteps)
       /\ s.reader = "none"
       /\ s.pc # "body"
       /\ s.bodyValue = Undefined
       /\ ~ThrownAt(s, "body")
       /\ \A i \in 1..Len(s.log) :
            s.log[i].ev = "fn" => s.log[i].arg.body = Undefined
       /\ PipelineResponse(s)
          => /\ s.resp.status # 415
             /\ s.resp.body # [error |-> Str("Invalid request body")]
       /\ (ParamsResolved(s)
           /\ (Has(s, "paramsSchema") => StageParsed(s, "paramsSchema").success)
           /\ (Has(s, "querySchema") => StageParsed(s, "querySchema").success))
          => Has(s, "fn")

C24_Witness ==
  \E r \in Reqs :
    /\ schemas.bodySchema = "none"
    /\ ParamsResolved(run[r])
    /\ Has(run[r], "fn")
    /\ run[r].log[FirstIndex(run[r], "fn")].arg.body = Undefined
    /\ LastEvent(run[r]).ev = "return"

\* -------------------------------------------- claims on the pure helpers
\* the helper has been called and has returned
HasReturned(op) == call.op = op /\ call.out # None

\* C11: for every data object given to deleted(data), one with its own
\* deleted field included, the body built has deleted = true together with
\* all other fields of data, and the status is 200.
C11_DeletedFlagNeverOverridden ==
  HasReturned("httpDeleted")
  => LET data == Nullish(call.args.data, NoFields) IN
     /\ call.out.status = 200
     /\ call.out.body.deleted = Bool(TRUE)
     /\ \A k \in DOMAIN data \ {"deleted"} : call.out.body[k] = data[k]
     /\ DOMAIN call.out.body = DOMAIN data \cup {"deleted"}

\* C12: for total >= 0, page >= 1 and any limit, buildPageInfo uses
\* L = max(1, limit) and returns limit = L, pageCount = max(1, ceil(total / L)),
\* that is the least n >= 1 with n * L >= total (1 when total = 0),
\* hasNext = (page < pageCount), hasPrev = (page > 1), page and total unchanged.
C12_PageInfoIsClampedCeiling ==
  HasReturned("buildPageInfo")
  => LET a == call.args
         o == call.out
         L == IF a.limit >= 1 THEN a.limit ELSE 1 IN
     /\ o.limit = L
     /\ o.pageCount >= 1
     /\ o.pageCount * L >= a.total
     /\ \A n \in 1..(o.pageCount - 1) : n * L < a.total
     /\ (a.total = 0 => o.pageCount = 1 /\ ~o.hasNext)
     /\ o.hasNext = (a.page < o.pageCount)
     /\ o.hasPrev = (a.page > 1)
     /\ o.page = a.page
     /\ o.total = a.total

C12_Witness ==
  /\ HasReturned("buildPageInfo")
  /\ call.args.limit <= 0
  /\ call.args.total = 3
  /\ call.args.page = 2
  /\ call.out.limit = 1
  /\ call.out.pageCount = 3
  /\ call.out.hasNext
  /\ call.out.hasPrev

\* C13: for page >= 1 and limit >= 1, querySchemaToRange returns
\* from = (page - 1) * limit and to = from + limit - 1, so 0 <= from <= to, the
\* range holds exactly limit indices, the range of the next page starts right
\* after it, (1, 25) gives {0, 24} and (3, 10) gives {20, 29}.
C13_RangesTileTheIndices ==
  HasReturned("querySchemaToRange")
  => LET a == call.args
         o == call.out IN
     /\ o.from = (a.page - 1) * a.limit
     /\ o.to = o.from + a.limit - 1
     /\ 0 <= o.from /\ o.from <= o.to
     /\ Cardinality(o.from..o.to) = a.limit
     /\ querySchemaToRange([a EXCEPT !.page = @ + 1]).from = o.to + 1
     /\ (a.page = 1 => o.from = 0)
     /\ (a = [page |-> 1, limit |-> 25] => o = [from |-> 0, to |-> 24])
     /\ (a = [page |-> 3, limit |-> 10] => o = [from |-> 20, to |-> 29])

C13_Witness ==
  /\ HasReturned("querySchemaToRange")
  /\ call.args = [page |-> 3, limit |-> 10]
  /\ call.out = [from |-> 20, to |-> 29]

\* percent-decoding of an ASCII string: %XY is the character of code XY
HexValue(d) == (CHOOSE i \in 1..Len(HexDigits) : HexDigits[i] = d) - 1
CharOfCode(n) == CharCodes[CHOOSE i \in 1..Len(CharCodes) : CharCodes[i][2] = n][1]
RECURSIVE PercentDecode(_)
PercentDecode(str) ==
  IF str = <<>> THEN <<>>
  ELSE IF str[1] = "%"
  THEN <<CharOfCode(16 * HexValue(str[2]) + HexValue(str[3]))>>
         \o PercentDecode(SubSeq(str, 4, Len(str)))
  ELSE <<str[1]>> \o PercentDecode(Tail(str))

\* C16: the Content-Disposition value built by download is
\* <inline|attachment>; filename="<fallback>"; filename*=UTF-8''<encoded>
\* where the type is inline iff inline = true, the fallback is the file name
\* with every / \ and " replaced by _, the encoded part contains none of
\* ' ( ) * and percent-decoding it gives back the file name.
C16_ContentDispositionRoundTrips ==
  HasReturned("httpOkDownload")
  => LET name == call.args.filename
         n == Len(name)
         h == call.out.headers.ContentDisposition
         fallback == SubSeq(h, 3, n + 2)
         encoded == SubSeq(h, n + 4, Len(h)) IN
     /\ call.out.status = 200
     /\ Len(h) >= n + 3
     /\ h[1] = (IF call.args.inline = Bool(TRUE) THEN "inline" ELSE "attachment")
     /\ h[2] = "; filename=\""
     /\ h[n + 3] = "\"; filename*=UTF-8''"
     /\ \A i \in 1..n :
          fallback[i] = (IF name[i] \in {"/", "\\", "\""} THEN "_" ELSE name[i])
     /\ \A i \in 1..n : fallback[i] \notin {"/", "\\", "\""}
     /\ \A i \in 1..Len(encoded) : encoded[i] \notin {"'", "(", ")", "*"}
     /\ PercentDecode(encoded) = name

C16_Witness ==
  /\ HasReturned("httpOkDownload")
  /\ call.args.filename = <<"a", " ", "b", ".", "p", "d", "f">>
  /\ call.args.inline = Bool(TRUE)
  /\ call.out.headers.ContentDisposition
       = <<"inline", "; filename=\"", "a", " ", "b", ".", "p", "d", "f",
           "\"; filename*=UTF-8''", "a", "%", "2", "0", "b", ".", "p", "d", "f">>

====
